---------------------------- MODULE Spec2Model ----------------------------
(***************************************************************************)
(* A model of bwavfile's chunk reader, src/src/wave.rs: Wave<T> wraps a    *)
(* seekable byte store and looks chunks up by walking the RIFF / RF64 form *)
(* from its first byte on every call.                                      *)
(*                                                                         *)
(* The store is modelled byte for byte.  Unsigned 64-bit values (lengths,  *)
(* the cursor) are kept as their 8 little-endian bytes, 32-bit values as   *)
(* their 4 bytes, so that 0xFFFFFFFF and the u64 wrap-around are exact.    *)
(***************************************************************************)
EXTENDS Integers, Sequences, FiniteSets, TLC

(***************************************************************************)
(* Bounds of the model.                                                    *)
(***************************************************************************)
\* chunks laid out after the prologue (and the ds64 chunk) of a store
MaxChunks == 2
\* {FourCC, u64} records in the table of a ds64 chunk
MaxFields == 2
\* occurrence indexes asked of seek_chunk: 0..MaxIndex
MaxIndex == 1
\* nested get_ds64_length frames the stack holds before it overflows
MaxDepth == 3

(***************************************************************************)
(* Four-character codes, as their ASCII bytes.                             *)
(***************************************************************************)
RIFF_SIG == <<82, 73, 70, 70>>
RF64_SIG == <<82, 70, 54, 52>>
BW64_SIG == <<66, 87, 54, 52>>
WAVE_SIG == <<87, 65, 86, 69>>
DS64_SIG == <<100, 115, 54, 52>>
DATA_SIG == <<100, 97, 116, 97>>
IXML_SIG == <<105, 88, 77, 76>>
AXML_SIG == <<97, 120, 109, 108>>
\* a code that is none of the above (a foreign magic, a foreign form kind)
JUNK_SIG == <<74, 85, 78, 75>>

(***************************************************************************)
(* Unsigned integers as little-endian byte strings.                        *)
(***************************************************************************)
RECURSIVE LE(_, _)
\* the k low bytes of the natural number n, least significant first
LE(n, k) == IF k = 0 THEN <<>> ELSE <<n % 256>> \o LE(n \div 256, k - 1)

U32(n) == LE(n, 4)
U64(n) == LE(n, 4) \o <<0, 0, 0, 0>>
Zero64 == <<0, 0, 0, 0, 0, 0, 0, 0>>
\* the literal 0xFFFFFFFF of wave.rs, as a u32
SENTINEL == <<255, 255, 255, 255>>
\* `x as u64` of a u32
AsU64(x) == x \o <<0, 0, 0, 0>>

\* a + b on u64, byte by byte with the carry: the wrapped sum and whether
\* it overflowed
Add64(a, b) ==
    LET s1 == a[1] + b[1]
        s2 == a[2] + b[2] + (s1 \div 256)
        s3 == a[3] + b[3] + (s2 \div 256)
        s4 == a[4] + b[4] + (s3 \div 256)
        s5 == a[5] + b[5] + (s4 \div 256)
        s6 == a[6] + b[6] + (s5 \div 256)
        s7 == a[7] + b[7] + (s6 \div 256)
        s8 == a[8] + b[8] + (s7 \div 256)
    IN  [val |-> <<s1 % 256, s2 % 256, s3 % 256, s4 % 256,
                   s5 % 256, s6 % 256, s7 % 256, s8 % 256>>,
         over |-> s8 >= 256]

\* a - b on u64, byte by byte with the borrow: the wrapped difference and
\* whether it underflowed
Sub64(a, b) ==
    LET d1 == a[1] - b[1]
        d2 == a[2] - b[2] - (IF d1 < 0 THEN 1 ELSE 0)
        d3 == a[3] - b[3] - (IF d2 < 0 THEN 1 ELSE 0)
        d4 == a[4] - b[4] - (IF d3 < 0 THEN 1 ELSE 0)
        d5 == a[5] - b[5] - (IF d4 < 0 THEN 1 ELSE 0)
        d6 == a[6] - b[6] - (IF d5 < 0 THEN 1 ELSE 0)
        d7 == a[7] - b[7] - (IF d6 < 0 THEN 1 ELSE 0)
        d8 == a[8] - b[8] - (IF d7 < 0 THEN 1 ELSE 0)
    IN  [val |-> <<d1 % 256, d2 % 256, d3 % 256, d4 % 256,
                   d5 % 256, d6 % 256, d7 % 256, d8 % 256>>,
         over |-> d8 < 0]

\* a u64 as a natural number when it is below 2^24, -1 otherwise
Small(a) ==
    IF \A i \in 4..8 : a[i] = 0
    THEN a[1] + 256 * a[2] + 65536 * a[3]
    ELSE -1

(***************************************************************************)
(* What a call returns.  kind is "Ok", "Err" (a typed error, err and sig   *)
(* say which), or one of the ways a call does not return to its caller:    *)
(* "Panic" (an arithmetic overflow check), "StackOverflow", "Hang".  pos   *)
(* is the store's cursor when the call ends.                               *)
(***************************************************************************)
Ret(p) ==
    [kind |-> "Ok", err |-> "None", sig |-> <<>>, pos |-> p, ident |-> <<>>,
     len |-> Zero64, disp |-> Zero64, flag |-> FALSE, data |-> <<>>]

Fail(e, s, p) == [Ret(p) EXCEPT !.kind = "Err", !.err = e, !.sig = s]

Stop(k, p) == [Ret(p) EXCEPT !.kind = k]

Returned(r) == r.kind \in {"Ok", "Err"}

\* the builds of the crate: overflow checks are on in debug, off in release
Builds == {"debug", "release"}

(***************************************************************************)
(* The store: Read::read_exact and Read::read at the cursor, Seek.         *)
(***************************************************************************)
\* read_exact of n bytes at cursor p: the bytes, or UnexpectedEof with the
\* cursor left at the end of the store
ReadExact(b, p, n) ==
    LET i == Small(p)
    IN  IF i >= 0 /\ i + n <= Len(b)
        THEN [Ret(Add64(p, U64(n)).val) EXCEPT !.data = SubSeq(b, i + 1, i + n)]
        ELSE Fail("Io", <<>>, IF i >= 0 /\ i < Len(b) THEN U64(Len(b)) ELSE p)

\* read into a buffer of n bytes at cursor p: as many bytes as the store has
ReadSome(b, p, n) ==
    LET i == Small(p)
        m == IF i >= 0 /\ i < Len(b)
             THEN (IF Len(b) - i < n THEN Len(b) - i ELSE n)
             ELSE 0
    IN  [Ret(Add64(p, U64(m)).val) EXCEPT
            !.data = IF m = 0 THEN <<>> ELSE SubSeq(b, i + 1, i + m),
            !.len = U64(m)]

read_fourcc(b, p) == ReadExact(b, p, 4)

read_u32(b, p) == ReadExact(b, p, 4)

read_u64(b, p) == ReadExact(b, p, 8)

\* seek(SeekFrom::Current(d as i64)): the new cursor, or an error when it
\* would be negative or past u64
SeekCurrent(p, d) ==
    LET s == Add64(p, d)
        negative == d[8] >= 128
    IN  IF s.over = negative THEN Ret(s.val) ELSE Fail("Io", <<>>, p)

(***************************************************************************)
(* Wave::is_rf64                                                           *)
(***************************************************************************)
\* dispatch without its test of the length field
dispatch_any_length(magic, length_field, form_ident) ==
    IF magic \in {RF64_SIG, BW64_SIG} /\ form_ident = WAVE_SIG
    THEN "rf64"
    ELSE IF magic = RIFF_SIG /\ form_ident = WAVE_SIG
    THEN "riff"
    ELSE "other"

\* the match of is_rf64 on (magic, length_field, form_ident)
dispatch(magic, length_field, form_ident) ==
    IF /\ magic \in {RF64_SIG, BW64_SIG}
       /\ length_field = SENTINEL
       /\ form_ident = WAVE_SIG
    THEN "rf64"
    ELSE IF magic = RIFF_SIG /\ form_ident = WAVE_SIG
    THEN "riff"
    ELSE "other"

\* is_rf64 called with the cursor at old.  Each step takes what the read
\* before it returned; a failed read ends the call (the ? operator)
is_rf64(b, old) ==
    LET on_ds64(ds64) ==
            IF ds64.kind # "Ok" THEN ds64
            ELSE IF ds64.data = DS64_SIG
            THEN [Ret(old) EXCEPT !.flag = TRUE]
            ELSE Fail("MissingRequiredDS64", <<>>, old)
        on_match(arm, at) ==
            CASE arm = "rf64" -> on_ds64(read_fourcc(b, at))
              [] arm = "riff" -> [Ret(old) EXCEPT !.flag = FALSE]
              \* no seek back to old on this arm
              [] OTHER -> Fail("HeaderNotRecognized", <<>>, at)
        on_form_ident(magic, length_field, form_ident) ==
            IF form_ident.kind # "Ok" THEN form_ident
            ELSE on_match(dispatch(magic, length_field, form_ident.data),
                          form_ident.pos)
        on_length_field(magic, length_field) ==
            IF length_field.kind # "Ok" THEN length_field
            ELSE on_form_ident(magic, length_field.data,
                               read_fourcc(b, length_field.pos))
        on_magic(magic) ==
            IF magic.kind # "Ok" THEN magic
            ELSE on_length_field(magic.data, read_u32(b, magic.pos))
    IN  on_magic(read_fourcc(b, Zero64))

(***************************************************************************)
(* Wave::read_chunk_header_immediate and Wave::get_ds64_length, which call *)
(* each other.  depth counts the get_ds64_length frames on the stack.      *)
(***************************************************************************)
\* chunk_displacement without the pad byte
chunk_displacement_unpadded(chunk_length, build) ==
    [val |-> chunk_length, panic |-> FALSE]

\* chunk_length + chunk_length % 2, with the build's overflow behaviour
chunk_displacement(chunk_length, build) ==
    LET s == Add64(chunk_length, U64(chunk_length[1] % 2))
    IN  [val |-> s.val, panic |-> s.over /\ build = "debug"]

RECURSIVE scan_fields_last(_, _, _, _)
\* scan_fields without its break: the last record of ident is the one kept
scan_fields_last(b, p, n, ident) ==
    LET on_rest(this_fourcc, this_field_size, rest) ==
            IF rest.kind # "Ok" \/ rest.flag THEN rest
            ELSE IF this_fourcc = ident
            THEN [Ret(rest.pos) EXCEPT !.flag = TRUE, !.len = this_field_size]
            ELSE rest
        on_size(this_fourcc, this_field_size) ==
            IF this_field_size.kind # "Ok" THEN this_field_size
            ELSE on_rest(this_fourcc, this_field_size.data,
                         scan_fields_last(b, this_field_size.pos,
                                          Sub64(n, U64(1)).val, ident))
        on_fourcc(this_fourcc) ==
            IF this_fourcc.kind # "Ok" THEN this_fourcc
            ELSE on_size(this_fourcc.data, read_u64(b, this_fourcc.pos))
    IN  IF n = Zero64 THEN Ret(p) ELSE on_fourcc(read_fourcc(b, p))

RECURSIVE scan_fields(_, _, _, _)
\* the `for _ in 0..field_count` loop of get_ds64_length with n rounds left:
\* flag says whether a record of ident was met, len is its size
scan_fields(b, p, n, ident) ==
    LET on_size(this_fourcc, this_field_size) ==
            IF this_field_size.kind # "Ok" THEN this_field_size
            ELSE IF this_fourcc = ident
            THEN [Ret(this_field_size.pos) EXCEPT
                     !.flag = TRUE, !.len = this_field_size.data]
            ELSE scan_fields(b, this_field_size.pos,
                             Sub64(n, U64(1)).val, ident)
        on_fourcc(this_fourcc) ==
            IF this_fourcc.kind # "Ok" THEN this_fourcc
            ELSE on_size(this_fourcc.data, read_u64(b, this_fourcc.pos))
    IN  IF n = Zero64 THEN Ret(p) ELSE on_fourcc(read_fourcc(b, p))

RECURSIVE read_chunk_header_immediate(_, _, _, _)
RECURSIVE get_ds64_length(_, _, _, _, _)

get_ds64_length(b, old_pos, ident, build, depth) ==
    LET found(size) == [Ret(old_pos) EXCEPT !.len = size]
        missing == Fail("MissingDS64Length", ident, old_pos)
        on_fields(fields) ==
            IF fields.kind # "Ok" THEN fields
            ELSE IF fields.flag THEN found(fields.len)
            ELSE missing
        on_field_count(field_count) ==
            IF field_count.kind # "Ok" THEN field_count
            ELSE on_fields(scan_fields(b, field_count.pos,
                                       AsU64(field_count.data), ident))
        on_fact(fact) ==
            IF fact.kind # "Ok" THEN fact
            ELSE on_field_count(read_u32(b, fact.pos))
        on_data_size(data_size) ==
            IF data_size.kind # "Ok" THEN data_size
            ELSE IF ident = DATA_SIG THEN found(data_size.data)
            ELSE on_fact(read_u64(b, data_size.pos))
        on_form_size(form_size) ==
            IF form_size.kind # "Ok" THEN form_size
            ELSE IF ident \in {RF64_SIG, BW64_SIG} THEN found(form_size.data)
            ELSE on_data_size(read_u64(b, form_size.pos))
        on_ds64_header(h) ==
            IF h.kind # "Ok" THEN h
            ELSE IF h.ident # DS64_SIG THEN missing
            ELSE on_form_size(read_u64(b, h.pos))
    IN  IF depth > MaxDepth THEN Stop("StackOverflow", old_pos)
        ELSE on_ds64_header(read_chunk_header_immediate(b, U64(12), build, depth))

read_chunk_header_immediate(b, p, build, depth) ==
    LET header(ident_field, at, chunk_length, d) ==
            IF d.panic THEN Stop("Panic", at)
            ELSE [Ret(at) EXCEPT !.ident = ident_field,
                                 !.len = chunk_length,
                                 !.disp = d.val]
        on_length(ident_field, at, chunk_length) ==
            header(ident_field, at, chunk_length,
                   chunk_displacement(chunk_length, build))
        on_ds64_length(ident_field, ds64) ==
            IF ds64.kind # "Ok" THEN ds64
            ELSE on_length(ident_field, ds64.pos, ds64.len)
        on_is_rf64(ident_field, length_field_u32, rf64) ==
            IF rf64.kind # "Ok" THEN rf64
            ELSE IF ~rf64.flag
            THEN on_length(ident_field, rf64.pos, AsU64(length_field_u32))
            ELSE on_ds64_length(ident_field,
                    get_ds64_length(b, rf64.pos, ident_field, build, depth + 1))
        on_length_field(ident_field, length_field_u32) ==
            IF length_field_u32.kind # "Ok" THEN length_field_u32
            ELSE IF length_field_u32.data # SENTINEL
            THEN on_length(ident_field, length_field_u32.pos,
                           AsU64(length_field_u32.data))
            ELSE on_is_rf64(ident_field, length_field_u32.data,
                            is_rf64(b, length_field_u32.pos))
        on_ident_field(ident_field) ==
            IF ident_field.kind # "Ok" THEN ident_field
            ELSE on_length_field(ident_field.data,
                                 read_u32(b, ident_field.pos))
    IN  on_ident_field(read_fourcc(b, p))

(***************************************************************************)
(* Wave::seek_chunk                                                        *)
(***************************************************************************)
\* remain - (8 + displacement), with the build's overflow behaviour
budget_left(remain, displacement, build) ==
    LET step == Add64(U64(8), displacement)
        left == Sub64(remain, step.val)
    IN  [val |-> left.val, panic |-> (step.over \/ left.over) /\ build = "debug"]

\* the test of seek_chunk's while loop
walk_on(remain) == remain # Zero64

\* whether the chunk just read is the one asked for
is_match(fourcc, ident, count, index) == fourcc = ident /\ count = index

RECURSIVE walk(_, _, _, _, _, _, _, _)
\* the while loop of seek_chunk, its header read at cursor p.  fuel is the
\* number of rounds followed: a loop that outlasts it never returns (every
\* round that moves the cursor forward moves it by 8 bytes at least, and a
\* read past the end of the store ends the loop)
walk(b, p, remain, count, ident, index, build, fuel) ==
    LET on_left(h, skip, left) ==
            IF left.panic THEN Stop("Panic", skip.pos)
            ELSE walk(b, skip.pos, left.val,
                      IF h.ident = ident THEN count + 1 ELSE count,
                      ident, index, build, fuel - 1)
        on_skip(h, skip) ==
            IF skip.kind # "Ok" THEN skip
            ELSE on_left(h, skip, budget_left(remain, h.disp, build))
        on_header(h) ==
            IF h.kind # "Ok" THEN h
            ELSE IF is_match(h.ident, ident, count, index)
            THEN [Ret(h.pos) EXCEPT !.len = h.len]
            ELSE on_skip(h, SeekCurrent(h.pos, h.disp))
    IN  IF ~walk_on(remain) THEN Fail("ChunkMissing", ident, p)
        ELSE IF fuel = 0 THEN Stop("Hang", p)
        ELSE on_header(read_chunk_header_immediate(b, p, build, 0))

seek_chunk(b, ident, index, build) ==
    LET on_remain(form, remain) ==
            IF remain.over /\ build = "debug" THEN Stop("Panic", form.pos)
            ELSE walk(b, form.pos, remain.val, 0, ident, index, build, Len(b))
        on_form(h, form) ==
            IF form.kind # "Ok" THEN form
            ELSE on_remain(form, Sub64(h.len, U64(4)))
        on_header(h) ==
            IF h.kind # "Ok" THEN h
            ELSE on_form(h, read_fourcc(b, h.pos))
    IN  on_header(read_chunk_header_immediate(b, Zero64, build, 0))

(***************************************************************************)
(* Wave::read_chunk, read_ixml, read_axml                                  *)
(***************************************************************************)
\* read_chunk into a buffer of buflen bytes: len is the usize returned,
\* data the bytes put into the buffer
read_chunk(b, ident, at_index, buflen, build) ==
    LET on_seek(s) == IF s.kind # "Ok" THEN s ELSE ReadSome(b, s.pos, buflen)
    IN  on_seek(seek_chunk(b, ident, at_index, build))

read_ixml(b, buflen, build) == read_chunk(b, IXML_SIG, 0, buflen, build)

read_axml(b, buflen, build) == read_chunk(b, AXML_SIG, 0, buflen, build)

(***************************************************************************)
(* The stores the model opens.  An image says how a store was written: the *)
(* 12-byte prologue, an optional ds64 chunk, the chunks that follow, and   *)
(* how many bytes were cut off the end.  Layout turns it into bytes.       *)
(***************************************************************************)
\* content lengths of the chunks laid out: one even, one odd
Sizes == {4, 5}

Pad(n) == n + (n % 2)

\* byte j of the content of the k-th chunk: no byte of a four-character code
Content(k, n) == [j \in 1..n |-> 16 * k + j]

\* a chunk: identifier, the 4 bytes of its length field, its content length
ChunkBytes(c, k) ==
    c.id \o c.field \o Content(k, c.size)
         \o (IF c.size % 2 = 1 THEN <<0>> ELSE <<>>)

RECURSIVE ChunksBytes(_, _)
ChunksBytes(cs, k) ==
    IF k > Len(cs) THEN <<>> ELSE ChunkBytes(cs[k], k) \o ChunksBytes(cs, k + 1)

RECURSIVE FieldsBytes(_)
FieldsBytes(fs) ==
    IF fs = <<>> THEN <<>> ELSE fs[1].id \o fs[1].size \o FieldsBytes(Tail(fs))

\* content length of a ds64 chunk with table fs
Ds64Size(fs) == 28 + 12 * Len(fs)

Ds64Bytes(d) ==
    DS64_SIG \o d.field \o d.form_size \o d.data_size \o Zero64
             \o U32(Len(d.fields)) \o FieldsBytes(d.fields)

RECURSIVE ChunksSpan(_)
\* bytes the chunks cs take in the store, headers and pad bytes included
ChunksSpan(cs) ==
    IF cs = <<>> THEN 0 ELSE 8 + Pad(cs[1].size) + ChunksSpan(Tail(cs))

\* the form length of a store laid out exactly: the form kind, the ds64
\* chunk when there is one, and the chunks
FormSpan(ds, cs) ==
    4 + (IF ds = <<>> THEN 0 ELSE 8 + Ds64Size(ds[1].fields)) + ChunksSpan(cs)

Layout(img) ==
    LET all == img.magic \o img.length \o img.form
               \o (IF img.ds64 = <<>> THEN <<>> ELSE Ds64Bytes(img.ds64[1]))
               \o ChunksBytes(img.chunks, 1)
    IN  SubSeq(all, 1, Len(all) - img.cut)

\* sequences of at most n elements of S
SeqsUpTo(S, n) == UNION {[1..k -> S] : k \in 0..n}

Chunk(i, f, n) == [id |-> i, field |-> f, size |-> n]

\* chunks of a 32-bit store: the declared length is the content length, or
\* it is 0xFFFFFFFF
Chunks32 ==
    {Chunk(IXML_SIG, U32(4), 4), Chunk(IXML_SIG, U32(5), 5),
     Chunk(AXML_SIG, U32(5), 5), Chunk(IXML_SIG, SENTINEL, 4)}

Image(m, l, f, ds, cs, cut) ==
    [magic |-> m, length |-> l, form |-> f, ds64 |-> ds, chunks |-> cs,
     cut |-> cut]

\* RIFF....WAVE stores whose form length is the bytes that follow it
Riff32 ==
    {Image(RIFF_SIG, U32(FormSpan(<<>>, cs)), WAVE_SIG, <<>>, cs, 0) :
        cs \in SeqsUpTo(Chunks32, MaxChunks)}

\* stores without a ds64 chunk whose prologue or length is off
Odd32 ==
    UNION {
      {Image(RIFF_SIG, U32(FormSpan(<<>>, cs)), WAVE_SIG, <<>>, cs, 1),
       Image(RIFF_SIG, U32(FormSpan(<<>>, cs) + 3), WAVE_SIG, <<>>, cs, 0),
       Image(RIFF_SIG, U32(FormSpan(<<>>, cs) - 2), WAVE_SIG, <<>>, cs, 0),
       Image(RIFF_SIG, U32(2), WAVE_SIG, <<>>, cs, 0),
       Image(RIFF_SIG, SENTINEL, WAVE_SIG, <<>>, cs, 0),
       Image(JUNK_SIG, U32(FormSpan(<<>>, cs)), WAVE_SIG, <<>>, cs, 0),
       Image(RIFF_SIG, U32(FormSpan(<<>>, cs)), JUNK_SIG, <<>>, cs, 0),
       Image(RF64_SIG, U32(FormSpan(<<>>, cs)), WAVE_SIG, <<>>, cs, 0),
       Image(RF64_SIG, SENTINEL, WAVE_SIG, <<>>, cs, 0),
       Image(BW64_SIG, SENTINEL, JUNK_SIG, <<>>, cs, 0)}
      : cs \in SeqsUpTo(Chunks32, 1)}

\* chunks of a 64-bit store
Chunks64 ==
    {Chunk(IXML_SIG, U32(4), 4), Chunk(IXML_SIG, SENTINEL, 5),
     Chunk(DATA_SIG, SENTINEL, 5)}

\* records of a ds64 table
Fields64 ==
    {[id |-> IXML_SIG, size |-> U64(5)], [id |-> IXML_SIG, size |-> U64(4)],
     [id |-> AXML_SIG, size |-> U64(4)]}

\* a ds64 chunk: its own length field, the data size, the table; the form
\* size is that of the store laid out with chunks cs
Ds64(own, dsz, fs, cs) ==
    <<[field |-> own,
       form_size |-> U64(FormSpan(<<[fields |-> fs]>>, cs)),
       data_size |-> U64(dsz),
       fields |-> fs]>>

\* tables and chunks of the 64-bit stores: long tables with few chunks, many
\* chunks with short tables
Tabled64 ==
    {<<fs, cs>> \in SeqsUpTo(Fields64, MaxFields) \X SeqsUpTo(Chunks64, MaxChunks) :
        Len(fs) <= 1 \/ Len(cs) <= 1}

\* RF64....WAVE ds64 stores laid out as the ds64 chunk says
Rf64 ==
    {Image(RF64_SIG, SENTINEL, WAVE_SIG,
           Ds64(U32(Ds64Size(t[1])), 5, t[1], t[2]), t[2], 0) : t \in Tabled64}

\* stores with a ds64 chunk: BW64, a data size that is not the data chunk's,
\* a ds64 chunk whose own length field is 0xFFFFFFFF, a cut store
Odd64 ==
    UNION {
      {Image(BW64_SIG, SENTINEL, WAVE_SIG,
             Ds64(U32(Ds64Size(fs)), 5, fs, cs), cs, 0),
       Image(RF64_SIG, SENTINEL, WAVE_SIG,
             Ds64(U32(Ds64Size(fs)), 4, fs, cs), cs, 0),
       Image(RF64_SIG, SENTINEL, WAVE_SIG, Ds64(SENTINEL, 5, fs, cs), cs, 0),
       Image(RF64_SIG, SENTINEL, WAVE_SIG,
             Ds64(U32(Ds64Size(fs)), 5, fs, cs), cs, 1)}
      : fs \in SeqsUpTo(Fields64, 1), cs \in SeqsUpTo(Chunks64, 1)}

Images == Riff32 \cup Odd32 \cup Rf64 \cup Odd64

(***************************************************************************)
(* The state of a Wave<T>: the store's bytes and cursor.                   *)
(***************************************************************************)
VARIABLES
    image,   \* how the store was written
    bytes,   \* the store's bytes: Wave::inner
    pos,     \* the store's cursor
    build,   \* the build the program runs as
    last     \* the last call on the Wave and what it returned

vars == <<image, bytes, pos, build, last>>

\* identifiers looked up
LookupIds == {IXML_SIG, DATA_SIG}

\* lengths of the buffers handed to read_ixml and read_axml
BufLens == {0, 7}

Call(op, ident, index, buflen, old, out) ==
    [op |-> op, ident |-> ident, index |-> index, buflen |-> buflen,
     old |-> old, out |-> out]

\* Wave::new(inner), the store at its first byte
InitOver(imgs) ==
    /\ image \in imgs
    /\ bytes = Layout(image)
    /\ pos = Zero64
    /\ build \in Builds
    /\ last = Call("new", <<>>, 0, 0, Zero64, Ret(Zero64))

Init == InitOver(Images)

Finish(op, ident, index, buflen, old, out) ==
    /\ last' = Call(op, ident, index, buflen, old, out)
    /\ pos' = out.pos
    /\ UNCHANGED <<image, bytes, build>>

Call_is_rf64 ==
    /\ Returned(last.out)
    /\ Finish("is_rf64", <<>>, 0, 0, pos, is_rf64(bytes, pos))

Call_seek_chunk(ident, index) ==
    /\ Returned(last.out)
    /\ Finish("seek_chunk", ident, index, 0, Zero64,
              seek_chunk(bytes, ident, index, build))

Call_read_ixml(buflen) ==
    /\ Returned(last.out)
    /\ Finish("read_ixml", IXML_SIG, 0, buflen, Zero64,
              read_ixml(bytes, buflen, build))

Call_read_axml(buflen) ==
    /\ Returned(last.out)
    /\ Finish("read_axml", AXML_SIG, 0, buflen, Zero64,
              read_axml(bytes, buflen, build))

Next ==
    \/ Call_is_rf64
    \/ \E ident \in LookupIds, index \in 0..MaxIndex : Call_seek_chunk(ident, index)
    \/ \E buflen \in BufLens : Call_read_ixml(buflen)
    \/ \E buflen \in BufLens : Call_read_axml(buflen)

Spec == Init /\ [][Next]_vars

(***************************************************************************)
(* What the claims speak of.                                               *)
(***************************************************************************)
\* the top-level chunks of an image in file order, the ds64 chunk first
AllChunks(img) ==
    (IF img.ds64 = <<>> THEN <<>>
     ELSE <<Chunk(DS64_SIG, img.ds64[1].field, Ds64Size(img.ds64[1].fields))>>)
    \o img.chunks

\* the records of the image's ds64 table that carry identifier id
Records(img, id) ==
    IF img.ds64 = <<>> THEN {}
    ELSE {i \in 1..Len(img.ds64[1].fields) : img.ds64[1].fields[i].id = id}

Min(S) == CHOOSE x \in S : \A y \in S : x <= y
Max(S) == CHOOSE x \in S : \A y \in S : x >= y

\* chunk c's length field says its content length: directly, or through the
\* ds64 chunk (the data size, or every table record of its identifier)
ProperField(img, c) ==
    \/ c.field = U32(c.size)
    \/ /\ img.ds64 # <<>>
       /\ c.field = SENTINEL
       /\ IF c.id = DATA_SIG
          THEN img.ds64[1].data_size = U64(c.size)
          ELSE /\ Records(img, c.id) # {}
               /\ \A i \in Records(img, c.id) :
                     img.ds64[1].fields[i].size = U64(c.size)

\* a well-formed container: RIFF....WAVE with its form length, or
\* RF64/BW64 0xFFFFFFFF WAVE followed by a ds64 chunk that holds it
WellFormed(img) ==
    /\ img.cut = 0
    /\ img.form = WAVE_SIG
    /\ \A k \in 1..Len(img.chunks) : ProperField(img, img.chunks[k])
    /\ \/ /\ img.magic = RIFF_SIG
          /\ img.ds64 = <<>>
          /\ img.length = U32(FormSpan(<<>>, img.chunks))
       \/ /\ img.magic \in {RF64_SIG, BW64_SIG}
          /\ img.length = SENTINEL
          /\ img.ds64 # <<>>
          /\ img.ds64[1].field = U32(Ds64Size(img.ds64[1].fields))
          /\ img.ds64[1].form_size = U64(FormSpan(img.ds64, img.chunks))

\* the places among all of the chunks with identifier id
Places(all, id) == {k \in 1..Len(all) : all[k].id = id}

\* the place of the (index+1)-th chunk with identifier id
Place(all, id, index) ==
    CHOOSE k \in Places(all, id) :
        Cardinality({j \in Places(all, id) : j < k}) = index

\* the first content byte of the k-th chunk
ContentOffset(all, k) == 12 + ChunksSpan(SubSeq(all, 1, k - 1)) + 8

\* the prologue of the store, when the store holds one
HasPrologue == Len(bytes) >= 12
Magic == SubSeq(bytes, 1, 4)
LengthField == SubSeq(bytes, 5, 8)
FormKind == SubSeq(bytes, 9, 12)
HasNext == Len(bytes) >= 16
NextIdent == SubSeq(bytes, 13, 16)

Prologue64 ==
    /\ HasPrologue
    /\ Magic \in {RF64_SIG, BW64_SIG}
    /\ LengthField = SENTINEL
    /\ FormKind = WAVE_SIG

PrologueRiff == HasPrologue /\ Magic = RIFF_SIG /\ FormKind = WAVE_SIG

\* the header just before the cursor, after a lookup that found its chunk
FoundIdent == SubSeq(bytes, Small(pos) - 7, Small(pos) - 4)
FoundField == SubSeq(bytes, Small(pos) - 3, Small(pos))

Found == last.op = "seek_chunk" /\ last.out.kind = "Ok"

IsErr(r, e) == r.kind = "Err" /\ r.err = e

(***************************************************************************)
(* C1: in a well-formed container that holds more than index chunks of     *)
(* ident, seek_chunk(ident, index) returns Ok(L), L the content length of  *)
(* the (index+1)-th such chunk, and leaves the cursor on that chunk's      *)
(* first content byte: 12, plus 8 + len + len mod 2 for every chunk        *)
(* before it, plus 8.                                                      *)
(***************************************************************************)
C1_SeekChunkLocates ==
    (/\ last.op = "seek_chunk"
     /\ WellFormed(image)
     /\ Cardinality(Places(AllChunks(image), last.ident)) > last.index)
    => LET all == AllChunks(image)
           k == Place(all, last.ident, last.index)
       IN  /\ last.out.kind = "Ok"
           /\ last.out.len = U64(all[k].size)
           /\ pos = U64(ContentOffset(all, k))

\* the second chunk of an identifier is found behind a first one of odd
\* length
C1_Witness ==
    /\ last.op = "seek_chunk"
    /\ WellFormed(image)
    /\ last.index = 1
    /\ last.out.kind = "Ok"
    /\ \E k \in 1..Len(image.chunks) :
          /\ image.chunks[k].size % 2 = 1
          /\ k < Place(AllChunks(image), last.ident, 1) - Len(image.ds64)

(***************************************************************************)
(* C2: is_rf64 leaves the cursor where it was, whatever it returns         *)
(* (Ok(true), Ok(false), Err(MissingRequiredDS64) or                       *)
(* Err(HeaderNotRecognized)).                                              *)
(***************************************************************************)
C2_IsRf64RestoresCursor ==
    (/\ last.op = "is_rf64"
     /\ \/ last.out.kind = "Ok"
        \/ IsErr(last.out, "MissingRequiredDS64")
        \/ IsErr(last.out, "HeaderNotRecognized"))
    => pos = last.old

(***************************************************************************)
(* C3: is_rf64 classifies the prologue as the dispatch table says:         *)
(* Ok(true) iff it is (RF64 or BW64, 0xFFFFFFFF, WAVE) and bytes 12..16    *)
(* are ds64; Err(MissingRequiredDS64) iff that prologue is followed by     *)
(* four other bytes; Ok(false) iff it is (RIFF, any length, WAVE);         *)
(* Err(HeaderNotRecognized) for every other prologue.                      *)
(***************************************************************************)
C3_IsRf64Classifies ==
    (last.op = "is_rf64" /\ HasPrologue)
    => /\ (last.out.kind = "Ok" /\ last.out.flag)
             <=> (Prologue64 /\ HasNext /\ NextIdent = DS64_SIG)
       /\ IsErr(last.out, "MissingRequiredDS64")
             <=> (Prologue64 /\ HasNext /\ NextIdent # DS64_SIG)
       /\ (last.out.kind = "Ok" /\ ~last.out.flag) <=> PrologueRiff
       /\ IsErr(last.out, "HeaderNotRecognized")
             <=> (~Prologue64 /\ ~PrologueRiff)

\* an RF64 magic whose length field is not 0xFFFFFFFF is not recognized
C3_Witness ==
    /\ last.op = "is_rf64"
    /\ HasPrologue
    /\ Magic = RF64_SIG
    /\ LengthField # SENTINEL
    /\ FormKind = WAVE_SIG
    /\ IsErr(last.out, "HeaderNotRecognized")

(***************************************************************************)
(* C4: on a store whose prologue the dispatch table does not accept, a     *)
(* chunk lookup never returns Ok: it fails with MissingRequiredDS64 when   *)
(* the prologue is (RF64 or BW64, 0xFFFFFFFF, WAVE) and the next chunk is  *)
(* not ds64, and with HeaderNotRecognized when the prologue matches no     *)
(* container signature.                                                    *)
(***************************************************************************)
C4_LookupValidatesPrologue ==
    (last.op \in {"seek_chunk", "read_ixml", "read_axml"} /\ HasPrologue)
    => /\ (Prologue64 /\ HasNext /\ NextIdent # DS64_SIG)
             => IsErr(last.out, "MissingRequiredDS64")
       /\ (~Prologue64 /\ ~PrologueRiff)
             => IsErr(last.out, "HeaderNotRecognized")

(***************************************************************************)
(* C5: in a (RIFF, _, WAVE) container a length field of 0xFFFFFFFF, in the *)
(* form header or in a chunk the walk visits, makes the lookup fail with   *)
(* an error; 0xFFFFFFFF is never returned as a chunk's length.             *)
(***************************************************************************)
C5_SentinelIn32BitFails ==
    (/\ last.op = "seek_chunk"
     /\ PrologueRiff
     /\ image.chunks # <<>>
     /\ \/ LengthField = SENTINEL
        \/ image.chunks[1].field = SENTINEL)
    => /\ last.out.kind # "Ok"
       /\ last.out.len # AsU64(SENTINEL)

(***************************************************************************)
(* C6: in a 64-bit container the resolved length of a chunk is its         *)
(* declared length unless that is 0xFFFFFFFF; then it is the ds64 data     *)
(* size for data and the size of a ds64 table record of the identifier     *)
(* for another one, and when the table has no such record the lookup       *)
(* returns MissingDS64Length(identifier).                                  *)
(***************************************************************************)
C6_SizeResolution ==
    (/\ last.op = "seek_chunk"
     /\ Prologue64 /\ HasNext /\ NextIdent = DS64_SIG
     /\ image.cut = 0)
    => /\ Found =>
            IF FoundField # SENTINEL THEN last.out.len = AsU64(FoundField)
            ELSE IF FoundIdent = DATA_SIG
            THEN last.out.len = image.ds64[1].data_size
            ELSE \E i \in Records(image, FoundIdent) :
                    last.out.len = image.ds64[1].fields[i].size
       /\ \A k \in 1..Len(AllChunks(image)) :
            LET c == AllChunks(image)[k]
            IN  (/\ c.field = SENTINEL
                 /\ c.id # DATA_SIG
                 /\ Records(image, c.id) = {}
                 /\ \A j \in 1..(k - 1) :
                       /\ AllChunks(image)[j].field # SENTINEL
                       /\ AllChunks(image)[j].id # last.ident)
                => /\ IsErr(last.out, "MissingDS64Length")
                   /\ last.out.sig = c.id

(***************************************************************************)
(* C7: every read operation returns a value, Ok or a typed Err, on every   *)
(* store: no unbounded recursion and no abort from the unsigned            *)
(* subtractions.                                                           *)
(***************************************************************************)
C7_EveryCallReturns == Returned(last.out)

(***************************************************************************)
(* C8: read_ixml and read_axml deliver the content of the chunk they       *)
(* locate and nothing else: exactly its L content bytes.                   *)
(***************************************************************************)
C8_ReadChunkDeliversContent ==
    (/\ last.op \in {"read_ixml", "read_axml"}
     /\ WellFormed(image)
     /\ last.out.kind = "Ok")
    => LET all == AllChunks(image)
           k == Place(all, last.ident, 0)
           at == ContentOffset(all, k)
       IN  last.out.data = SubSeq(bytes, at + 1, at + all[k].size)

(***************************************************************************)
(* C9: the walk of seek_chunk ends with ChunkMissing(ident) as soon as     *)
(* fewer than 8 bytes of the form budget remain and the occurrence was not *)
(* found: a budget that leaves 0..7 bytes behind the last chunk yields     *)
(* ChunkMissing.                                                           *)
(***************************************************************************)
\* the form length less the bytes the image's chunks take, or -1 when the
\* length field is 0xFFFFFFFF
Remainder(img) ==
    IF img.length = SENTINEL THEN -1
    ELSE Small(AsU64(img.length)) - FormSpan(img.ds64, img.chunks)

C9_WalkStopsBelowEight ==
    (/\ last.op = "seek_chunk"
     /\ PrologueRiff
     /\ image.ds64 = <<>>
     /\ image.cut = 0
     /\ \A k \in 1..Len(image.chunks) :
           image.chunks[k].field = U32(image.chunks[k].size)
     /\ Remainder(image) \in 0..7
     /\ Cardinality(Places(image.chunks, last.ident)) <= last.index)
    => /\ IsErr(last.out, "ChunkMissing")
       /\ last.out.sig = last.ident

(***************************************************************************)
(* C10: when the ds64 table holds several records of one identifier, the   *)
(* size used for a chunk of that identifier is that of the last record.    *)
(***************************************************************************)
\* the lookup found a chunk whose length the ds64 table gave
FoundByTable ==
    /\ Found
    /\ Prologue64
    /\ FoundField = SENTINEL
    /\ FoundIdent \notin {RF64_SIG, BW64_SIG, DATA_SIG}
    /\ Records(image, FoundIdent) # {}

C10_LastRecordWins ==
    FoundByTable
    => last.out.len = image.ds64[1].fields[Max(Records(image, FoundIdent))].size

\* C10 as amended: the size used is that of the first record of the
\* identifier in the table
C10_FirstRecordWins ==
    FoundByTable
    => last.out.len = image.ds64[1].fields[Min(Records(image, FoundIdent))].size

\* a chunk is found whose identifier has two records of different sizes
C10_Witness ==
    /\ FoundByTable
    /\ \E i, j \in Records(image, FoundIdent) :
          image.ds64[1].fields[i].size # image.ds64[1].fields[j].size

=============================================================================
